---- MODULE Spec2Model ----
(***************************************************************************)
(* Model of auto_build.py: the build orchestrator that parses CXXFLAGS,    *)
(* cleans, partitions the requested modules into a sequential lane (one    *)
(* background thread) and a parallel group (a ThreadPoolExecutor), and     *)
(* runs the final aggregate build.                                         *)
(*                                                                         *)
(* Strings are sequences of one-character strings, so that the regular     *)
(* expression of get_flags, str.startswith, str.split, str.lower and       *)
(* str.replace are computed character by character as Python does.        *)
(***************************************************************************)
EXTENDS Integers, Sequences, FiniteSets, TLC

VARIABLES
    cxxflags,       \* os.environ.get("CXXFLAGS"): None or Some(string)
    pc,             \* position of the main thread in main()
    cleanQueue,     \* directories the running clean loop still has to clean
    cleanFailed,    \* a clean step found its directory missing or its
                    \* command returning non-zero
    flags,          \* main(): flags (None: not assigned yet)
    parallel_jobs,  \* main(): parallel_jobs (-1: not read yet)
    only_modules,   \* main(): only_modules (-1: not read yet)
    sequential,     \* main(): sequential
    parallel,       \* main(): parallel
    seqThread,      \* seq_thread: "none", "alive" or "dead"
    seqStatus,      \* build state of each member of sequential
    pool,           \* the ThreadPoolExecutor: "none", "open" or "shutdown"
    parStatus,      \* build state of each submitted member of parallel
    parExc,         \* exception stored in each future
    observed,       \* futures whose result() the as_completed loop has taken
    mainExc,        \* exception propagating in the main thread
    exitCode,       \* status the interpreter will exit with (-1: none yet)
    mainErr,        \* message of the die() called in the main thread
    handlerRan,     \* the except-Exception handler of main() has run
    successMsg,     \* "All module builds completed successfully!" was printed
    finalRuns,      \* number of times the final run("make") was started
    seqAliveAtFail, \* seq_thread was alive when a parallel failure was raised
    queuedAtFail,   \* futures still queued when a parallel failure was raised
    buildLog        \* SpecBuild: the build_module call made (None: none yet)

vars == <<cxxflags, pc, cleanQueue, cleanFailed, flags, parallel_jobs,
          only_modules,
          sequential, parallel, seqThread, seqStatus, pool, parStatus, parExc,
          observed, mainExc, exitCode, mainErr, handlerRan, successMsg,
          finalRuns, seqAliveAtFail, queuedAtFail, buildLog>>

-----------------------------------------------------------------------------
(* Bounds of the model *)

\* number of tokens of the CXXFLAGS strings of Spec
MaxTokens == 3
\* number of tokens of the CXXFLAGS strings of SpecPure
MaxPureTokens == 2
\* number of module directories Path("modules").glob("*/") lists
MaxGlob == 2
\* largest PARALLEL_JOBS value tried
MaxJobs == 2
\* number of tokens of the CXXFLAGS strings of SpecFair
MaxFairTokens == 3

-----------------------------------------------------------------------------
(* Characters and strings *)

\* an optional value (the result of os.environ.get, a local variable that
\* may not be assigned yet): None or Some(v)
None == <<>>
Some(s) == <<s>>
Val(o) == o[1]
\* Python truthiness of an optional string: None and "" are false
Truthy(o) == o # None /\ Val(o) # <<>>

UpperSeq == <<"A","B","C","D","E","F","G","H","I","J","K","L","M",
              "N","O","P","Q","R","S","T","U","V","W","X","Y","Z">>
LowerSeq == <<"a","b","c","d","e","f","g","h","i","j","k","l","m",
              "n","o","p","q","r","s","t","u","v","w","x","y","z">>
Upper == {UpperSeq[i] : i \in 1..26}
Digit == {"0","1","2","3","4","5","6","7","8","9"}
Whitespace == {" "}

\* the character class [A-Z0-9_] of get_flags
IsFlagChar(c) == c \in Upper \cup Digit \cup {"_"}

\* str.lower() on one character
LowerChar(c) ==
    IF c \in Upper
    THEN LowerSeq[CHOOSE i \in 1..26 : UpperSeq[i] = c]
    ELSE c

\* str.lower()
Lower(s) == [i \in 1..Len(s) |-> LowerChar(s[i])]

\* str.replace(ch, "")
RECURSIVE Remove(_, _)
Remove(s, ch) ==
    IF s = <<>> THEN <<>>
    ELSE IF Head(s) = ch THEN Remove(Tail(s), ch)
    ELSE <<Head(s)>> \o Remove(Tail(s), ch)

\* str.startswith(prefix)
StartsWith(s, prefix) ==
    /\ Len(s) >= Len(prefix)
    /\ SubSeq(s, 1, Len(prefix)) = prefix

\* str.split(): the maximal runs of non-whitespace characters
RECURSIVE SplitFrom(_, _, _)
SplitFrom(s, i, cur) ==
    IF i > Len(s)
    THEN IF cur = <<>> THEN <<>> ELSE <<cur>>
    ELSE IF s[i] \in Whitespace
    THEN (IF cur = <<>> THEN <<>> ELSE <<cur>>) \o SplitFrom(s, i + 1, <<>>)
    ELSE SplitFrom(s, i + 1, Append(cur, s[i]))

Split(s) == SplitFrom(s, 1, <<>>)

\* " ".join(tokens)
RECURSIVE Join(_)
Join(toks) ==
    IF toks = <<>> THEN <<>>
    ELSE IF Len(toks) = 1 THEN toks[1]
    ELSE toks[1] \o <<" ">> \o Join(Tail(toks))

Range(s) == {s[i] : i \in 1..Len(s)}

-----------------------------------------------------------------------------
(* Module identifiers and directories used by the program text *)

CUSTOM_MUTATOR_ == <<"C","U","S","T","O","M","_","M","U","T","A","T","O","R","_">>
BITCOIN_CORE == <<"B","I","T","C","O","I","N","_","C","O","R","E">>
SECP256K1 == <<"S","E","C","P","2","5","6","K","1">>
BITCOINJ == <<"B","I","T","C","O","I","N","J">>
LIGHTNING_KMP == <<"L","I","G","H","T","N","I","N","G","_","K","M","P">>
RUST_BITCOIN == <<"R","U","S","T","_","B","I","T","C","O","I","N">>
RUST_MINISCRIPT == <<"R","U","S","T","_","M","I","N","I","S","C","R","I","P","T">>
LDK == <<"L","D","K">>
TINY_MINISCRIPT == <<"T","I","N","Y","_","M","I","N","I","S","C","R","I","P","T">>
RUSTBITCOINKERNEL == <<"R","U","S","T","B","I","T","C","O","I","N","K","E","R","N","E","L">>

DirCustomMutator == <<"c","u","s","t","o","m","m","u","t","a","t","o","r">>
DirBitcoin == <<"m","o","d","u","l","e","s","/","b","i","t","c","o","i","n">>
DirModulesRoot == <<"m","o","d","u","l","e","s","/">>

FULL == <<"F","U","L","L">>
CLEAN == <<"C","L","E","A","N">>

-----------------------------------------------------------------------------
(* Pure functions of auto_build.py *)

\* the default rule without .replace('_', '')
get_module_dir_keeps_underscores(flag) ==
    IF StartsWith(flag, CUSTOM_MUTATOR_) THEN DirCustomMutator
    ELSE IF flag = BITCOIN_CORE THEN DirBitcoin
    ELSE DirModulesRoot \o Lower(flag)

get_module_dir(flag) ==
    IF StartsWith(flag, CUSTOM_MUTATOR_) THEN DirCustomMutator
    ELSE IF flag = BITCOIN_CORE THEN DirBitcoin
    ELSE DirModulesRoot \o Remove(Lower(flag), "_")

\* RUSTBITCOINKERNEL missing from the set
needs_rust_nightly_without_kernel(flag) ==
    flag \in {RUST_BITCOIN, RUST_MINISCRIPT, LDK, TINY_MINISCRIPT}

needs_rust_nightly(flag) ==
    flag \in {RUST_BITCOIN, RUST_MINISCRIPT, LDK, TINY_MINISCRIPT,
              RUSTBITCOINKERNEL}

\* the CUSTOM_MUTATOR_ prefix rule left out
should_build_sequentially_no_prefix(flag) ==
    flag \in {SECP256K1, BITCOINJ, LIGHTNING_KMP}

should_build_sequentially(flag) ==
    \/ flag \in {SECP256K1, BITCOINJ, LIGHTNING_KMP}
    \/ StartsWith(flag, CUSTOM_MUTATOR_)

\* end of the greedy match of [A-Z0-9_]+ starting at position i
RECURSIVE MatchEnd(_, _)
MatchEnd(s, i) ==
    IF i + 1 <= Len(s) /\ IsFlagChar(s[i + 1]) THEN MatchEnd(s, i + 1) ELSE i

\* re.findall(r"-D([A-Z0-9_]+)", s) scanning from position i: the leftmost
\* non-overlapping matches, each contributing its group
RECURSIVE FindAllFrom(_, _)
FindAllFrom(s, i) ==
    IF i + 2 > Len(s) THEN <<>>
    ELSE IF s[i] = "-" /\ s[i + 1] = "D" /\ IsFlagChar(s[i + 2])
    THEN LET e == MatchEnd(s, i + 2)
         IN  <<SubSeq(s, i + 2, e)>> \o FindAllFrom(s, e + 1)
    ELSE FindAllFrom(s, i + 1)

get_flags(s) == FindAllFrom(s, 1)

-----------------------------------------------------------------------------
(* Inputs: the environment of one invocation *)

D(id) == <<"-", "D">> \o id
L_DK == <<"L","_","D","K">>
CUSTOM_MUTATOR_A == CUSTOM_MUTATOR_ \o <<"A">>

\* tokens of the CXXFLAGS strings of Spec: two modules of the parallel
\* group (with one directory, one of them on the nightly toolchain), two
\* forced-sequential modules and a token that is no -D flag
Vocab == {D(LDK), D(L_DK), D(BITCOINJ), D(CUSTOM_MUTATOR_A), <<"-","O","2">>}

\* tokens of the CXXFLAGS strings of SpecFair: a module of the parallel
\* group and one of the sequential lane, each of which may be repeated
VocabFair == {D(LDK), D(BITCOINJ)}

\* tokens of the CXXFLAGS strings of SpecPure
VocabPure ==
    {D(SECP256K1), D(BITCOINJ), D(LIGHTNING_KMP),
     D(CUSTOM_MUTATOR_), D(CUSTOM_MUTATOR_A),
     D(<<"C","U","S","T","O","M","_","M","U","T","A","T","O","R">>),
     D(<<"S","E","C","P","2","5","6","K">>),
     D(BITCOIN_CORE), D(LDK), D(L_DK), D(RUST_BITCOIN),
     D(RUST_MINISCRIPT), D(TINY_MINISCRIPT), D(RUSTBITCOINKERNEL),
     D(<<"R","U","S","T","_","B","I","T","C","O","I","N",
         "K","E","R","N","E","L">>),
     <<"-","D","f","o","o">>, <<"-","O","2">>, <<"-","D">>,
     <<"x","-","D","L","N","D","9","z","-","D","L","D","K">>}

RECURSIVE SeqsUpTo(_, _)
SeqsUpTo(S, n) ==
    IF n = 0 THEN {<<>>}
    ELSE LET shorter == SeqsUpTo(S, n - 1)
         IN  shorter \cup {Append(q, x) : q \in shorter, x \in S}

\* the values of CXXFLAGS: unset, or up to n tokens joined by spaces
CxxflagsValues(V, n) == {None} \cup {Some(Join(toks)) : toks \in SeqsUpTo(V, n)}

\* the values of CLEAN_BUILD: unset, empty, FULL, CLEAN, explicit lists
CleanBuildValues ==
    {None, Some(<<>>), Some(FULL), Some(CLEAN),
     Some(LDK), Some(L_DK \o <<" ", " ">> \o BITCOINJ)}

\* what Path("modules").glob("*/") may list
DiskDirs == {get_module_dir(LDK), get_module_dir(BITCOINJ), DirBitcoin}
GlobListings ==
    {q \in SeqsUpTo(DiskDirs, MaxGlob) :
        \A i, j \in 1..Len(q) : i # j => q[i] # q[j]}

\* the values of PARALLEL_JOBS and of ONLY_MODULES
ParallelJobsValues == 0..MaxJobs
OnlyModulesValues == {0, 1}

-----------------------------------------------------------------------------
(* The external collaborators: subprocess.run and Path.is_dir *)

\* subprocess.run(cmd, shell=True): exit status 0, a non-zero exit status,
\* or OSError when the shell cannot be spawned
RunResults == {"ok", "nonzero", "oserror"}

\* execute_in_dir: the directory is missing, or run()'s result
ExecResults == {"nodir"} \cup RunResults

\* run(): a non-zero return code calls die(), which raises SystemExit
run_dies(r) == r = "nonzero"

\* execute_in_dir(): die() when the directory is missing, else run()
execute_in_dir_dies(r) == r = "nodir" \/ run_dies(r)

\* the exception that leaves execute_in_dir / run ("None": it returns)
Raised(r) ==
    IF execute_in_dir_dies(r) THEN "SystemExit"
    ELSE IF r = "oserror" THEN "OSError"
    ELSE "None"

\* the message die() prints
DieMessage(r) ==
    IF r = "nodir" THEN "Directory does not exist" ELSE "Command failed"

Status == {"Pending", "Running", "Succeeded", "Failed"}
Done(st) == st \in {"Succeeded", "Failed"}

-----------------------------------------------------------------------------
(* The state after the interpreter has started *)

InitWith(values) ==
    /\ cxxflags \in values
    /\ pc = "start"
    /\ cleanQueue = <<>>
    /\ cleanFailed = FALSE
    /\ flags = None
    /\ parallel_jobs = -1
    /\ only_modules = -1
    /\ sequential = <<>>
    /\ parallel = <<>>
    /\ seqThread = "none"
    /\ seqStatus = <<>>
    /\ pool = "none"
    /\ parStatus = <<>>
    /\ parExc = <<>>
    /\ observed = {}
    /\ mainExc = "None"
    /\ exitCode = -1
    /\ mainErr = "none"
    /\ handlerRan = FALSE
    /\ successMsg = FALSE
    /\ finalRuns = 0
    /\ seqAliveAtFail = FALSE
    /\ queuedAtFail = {}
    /\ buildLog = None

Init == InitWith(CxxflagsValues(Vocab, MaxTokens))

InitFair == InitWith(CxxflagsValues(VocabFair, MaxFairTokens))

InitPure == InitWith(CxxflagsValues(VocabPure, MaxPureTokens))

-----------------------------------------------------------------------------
(* The main thread, up to the partition *)

\* an exception leaves main() outside the with block: the interpreter
\* prints it (die's message was printed by die) and will exit with status 1
MainRaises(msg) ==
    /\ pc' = "finalize"
    /\ exitCode' = 1
    /\ mainErr' = msg
    /\ mainExc' = "None"

\* the outcome of a run()/execute_in_dir() called by the main thread
MainExecFails(r) == Raised(r) # "None"
MainExecMessage(r) == IF execute_in_dir_dies(r) THEN DieMessage(r) ELSE "none"

\* `cxxflags is None` in place of `not cxxflags`
cxxflags_missing_none_only(o) == o = None

\* line 98: `not cxxflags`
cxxflags_missing(o) == ~Truthy(o)

\* lines 97-99
ReadEnv ==
    /\ pc = "start"
    /\ IF cxxflags_missing(cxxflags)
       THEN MainRaises("CXXFLAGS not defined")
       ELSE /\ pc' = "root_clean"
            /\ UNCHANGED <<exitCode, mainErr, mainExc>>
    /\ UNCHANGED <<buildLog, queuedAtFail, cxxflags, cleanQueue, cleanFailed, flags, parallel_jobs,
                   only_modules, sequential, parallel, seqThread, seqStatus,
                   pool, parStatus, parExc, observed, handlerRan, successMsg,
                   finalRuns, seqAliveAtFail>>

\* lines 101-102: run("make clean") in the top-level directory
RootClean ==
    /\ pc = "root_clean"
    /\ \E r \in RunResults :
          IF MainExecFails(r)
          THEN MainRaises(MainExecMessage(r))
          ELSE /\ pc' = "select_clean"
               /\ UNCHANGED <<exitCode, mainErr, mainExc>>
    /\ UNCHANGED <<buildLog, queuedAtFail, cxxflags, cleanQueue, cleanFailed, flags, parallel_jobs,
                   only_modules, sequential, parallel, seqThread, seqStatus,
                   pool, parStatus, parExc, observed, handlerRan, successMsg,
                   finalRuns, seqAliveAtFail>>

\* [get_module_dir(f) for f in fl], the directories clean_by_flags visits
DirsOf(fl) == [i \in 1..Len(fl) |-> get_module_dir(fl[i])]

\* lines 104-114 and the loop headers of full_clean / clean_by_flags:
\* the directories the selected clean mode will visit, in order
CleanTargets(cb, listing) ==
    IF ~Truthy(cb) THEN <<>>
    ELSE IF Val(cb) = FULL THEN listing \o <<DirCustomMutator>>
    ELSE IF Val(cb) = CLEAN THEN DirsOf(get_flags(Val(cxxflags)))
    ELSE DirsOf(Split(Val(cb)))

SelectClean ==
    /\ pc = "select_clean"
    /\ \E cb \in CleanBuildValues, listing \in GlobListings :
          /\ cleanQueue' = CleanTargets(cb, listing)
          /\ pc' = IF cleanQueue' = <<>> THEN "parse" ELSE "cleaning"
    /\ UNCHANGED <<buildLog, queuedAtFail, cxxflags, cleanFailed, flags, parallel_jobs, only_modules,
                   sequential, parallel, seqThread, seqStatus, pool,
                   parStatus, parExc, observed, mainExc, exitCode, mainErr,
                   handlerRan, successMsg, finalRuns, seqAliveAtFail>>

\* the return code of the clean command not checked
clean_step_fatal_nodir_only(r) == r = "nodir"

\* a clean step whose result r ends main()
clean_step_fatal(r) == MainExecFails(r)

\* the clean step failed: directory missing, or non-zero exit status
CleanStepFailed(r) == r \in {"nodir", "nonzero"}

\* lines 68-70 and 74-75: execute_in_dir(d, "make clean") on the next
\* directory of the loop
CleanStep ==
    /\ pc = "cleaning"
    /\ cleanQueue # <<>>
    /\ \E r \in ExecResults :
          /\ cleanFailed' = (cleanFailed \/ CleanStepFailed(r))
          /\ IF clean_step_fatal(r)
             THEN /\ MainRaises(MainExecMessage(r))
                  /\ UNCHANGED cleanQueue
             ELSE /\ cleanQueue' = Tail(cleanQueue)
                  /\ pc' = IF cleanQueue' = <<>> THEN "parse" ELSE "cleaning"
                  /\ UNCHANGED <<exitCode, mainErr, mainExc>>
    /\ UNCHANGED <<buildLog, queuedAtFail, cxxflags, flags, parallel_jobs, only_modules, sequential,
                   parallel, seqThread, seqStatus, pool, parStatus, parExc,
                   observed, handlerRan, successMsg, finalRuns,
                   seqAliveAtFail>>

\* the early return of line 119 left out
NoModules_never(fl) == FALSE

\* line 117: `not flags`
NoModules(fl) == fl = <<>>

\* lines 116-119
Parse ==
    /\ pc = "parse"
    /\ flags' = Some(get_flags(Val(cxxflags)))
    /\ IF NoModules(Val(flags'))
       THEN /\ pc' = "finalize"
            /\ exitCode' = 0
       ELSE /\ pc' = "partition"
            /\ UNCHANGED exitCode
    /\ UNCHANGED <<buildLog, queuedAtFail, cxxflags, cleanQueue, cleanFailed, parallel_jobs,
                   only_modules, sequential, parallel, seqThread, seqStatus,
                   pool, parStatus, parExc, observed, mainExc, mainErr,
                   handlerRan, successMsg, finalRuns, seqAliveAtFail>>

\* line 132
SequentialOf(fl) == SelectSeq(fl, should_build_sequentially)

\* line 133
NotSequentially(f) == ~should_build_sequentially(f)
ParallelOf(fl) == SelectSeq(fl, NotSequentially)

AllPending(n) == [i \in 1..n |-> "Pending"]

\* lines 121-135
Partition ==
    /\ pc = "partition"
    /\ \E pj \in ParallelJobsValues : parallel_jobs' = pj
    /\ sequential' = SequentialOf(Val(flags))
    /\ parallel' = ParallelOf(Val(flags))
    /\ seqStatus' = AllPending(Len(sequential'))
    /\ pc' = "start_seq"
    /\ UNCHANGED <<buildLog, queuedAtFail, cxxflags, cleanQueue, cleanFailed, flags, only_modules,
                   seqThread, pool, parStatus, parExc, observed, mainExc,
                   exitCode, mainErr, handlerRan, successMsg, finalRuns,
                   seqAliveAtFail>>

\* the part of main() that runs before any thread exists
NextPure ==
    \/ ReadEnv
    \/ RootClean
    \/ SelectClean
    \/ CleanStep
    \/ Parse
    \/ Partition

SpecPure == InitPure /\ [][NextPure]_vars

-----------------------------------------------------------------------------
(* The sequential lane: seq_thread running run_sequential *)

SeqUnits == 1..Len(sequential)
ParUnits == 1..Len(parStatus)

SeqRunning == {i \in SeqUnits : seqStatus[i] = "Running"}
ParRunning == {i \in ParUnits : parStatus[i] = "Running"}

\* line 138: `if sequential`
HasSequential(sq) == sq # <<>>

\* line 151: `if parallel`
HasParallel(pl) == pl # <<>>

\* lines 138-148: the thread is created (not a daemon) and started
StartSeq ==
    /\ pc = "start_seq"
    /\ seqThread' = IF HasSequential(sequential) THEN "alive" ELSE seqThread
    /\ pc' = "pool"
    /\ UNCHANGED <<buildLog, queuedAtFail, cxxflags, cleanQueue, cleanFailed, flags, parallel_jobs,
                   only_modules, sequential, parallel, seqStatus, pool,
                   parStatus, parExc, observed, mainExc, exitCode, mainErr,
                   handlerRan, successMsg, finalRuns, seqAliveAtFail>>

\* every member started at once instead of one after another
seq_loop_reaches_any(i) == TRUE

\* lines 142-143: the for loop reaches member i when the build_module calls
\* of all earlier members have ended (and the thread is still alive)
seq_loop_reaches(i) == \A j \in 1..(i - 1) : Done(seqStatus[j])

\* run_sequential enters build_module(sequential[i])
SeqStart(i) ==
    /\ seqThread = "alive"
    /\ seqStatus[i] = "Pending"
    /\ seq_loop_reaches(i)
    /\ seqStatus' = [seqStatus EXCEPT ![i] = "Running"]
    /\ UNCHANGED <<buildLog, queuedAtFail, cxxflags, pc, cleanQueue, cleanFailed, flags, parallel_jobs,
                   only_modules, sequential, parallel, seqThread, pool,
                   parStatus, parExc, observed, mainExc, exitCode, mainErr,
                   handlerRan, successMsg, finalRuns, seqAliveAtFail>>

\* lines 77-93: the state build_module leaves its module in, given the
\* result of its execute_in_dir call
build_module_status(r) == IF Raised(r) = "None" THEN "Succeeded" ELSE "Failed"

\* a failure caught inside the loop, which goes on to the next member
run_sequential_ends_at_last(status, i) == i = Len(sequential)

\* lines 140-143: run_sequential ends when build_module raises (nothing in
\* the loop catches it) or when the loop has no member left
run_sequential_ends(status, i) == status = "Failed" \/ i = Len(sequential)

\* build_module(sequential[i]) returns or raises.  An exception (SystemExit
\* included) ends run_sequential and with it the thread; threading reports
\* nothing to the main thread.  The thread also ends after the last member.
SeqFinish(i) ==
    /\ seqThread = "alive"
    /\ seqStatus[i] = "Running"
    /\ \E r \in ExecResults :
          /\ seqStatus' = [seqStatus EXCEPT ![i] = build_module_status(r)]
          /\ seqThread' = IF run_sequential_ends(seqStatus'[i], i)
                          THEN "dead"
                          ELSE "alive"
    /\ UNCHANGED <<buildLog, queuedAtFail, cxxflags, pc, cleanQueue, cleanFailed, flags, parallel_jobs,
                   only_modules, sequential, parallel, pool, parStatus, parExc,
                   observed, mainExc, exitCode, mainErr, handlerRan,
                   successMsg, finalRuns, seqAliveAtFail>>

-----------------------------------------------------------------------------
(* The parallel group: the ThreadPoolExecutor and its workers *)

\* min(32, (os.process_cpu_count() or 1) + 4) is at least 5
DefaultWorkers == 5

\* the pool created without its max_workers argument
max_workers_ignored(pj) == DefaultWorkers

\* line 152: max_workers=parallel_jobs or None
max_workers(pj) == IF pj = 0 THEN DefaultWorkers ELSE pj

\* lines 151-153: the pool is created and every member of parallel is
\* submitted, each as one future
CreatePool ==
    /\ pc = "pool"
    /\ IF HasParallel(parallel)
       THEN /\ pool' = "open"
            /\ parStatus' = AllPending(Len(parallel))
            /\ parExc' = [i \in 1..Len(parallel) |-> "None"]
            /\ pc' = "as_completed"
       ELSE /\ pc' = "join"
            /\ UNCHANGED <<pool, parStatus, parExc>>
    /\ UNCHANGED <<buildLog, queuedAtFail, cxxflags, cleanQueue, cleanFailed, flags, parallel_jobs,
                   only_modules, sequential, parallel, seqThread, seqStatus,
                   observed, mainExc, exitCode, mainErr, handlerRan,
                   successMsg, finalRuns, seqAliveAtFail>>

\* the sequential lane run as one more work item of the pool
worker_available_lane_in_pool ==
    Cardinality(ParRunning) + Cardinality(SeqRunning) < max_workers(parallel_jobs)

\* a worker may take a work item: fewer than max_workers threads are busy
worker_available == Cardinality(ParRunning) < max_workers(parallel_jobs)

\* a worker takes work item i from the executor's FIFO queue and calls
\* build_module(parallel[i])
ParStart(i) ==
    /\ pool # "none"
    /\ parStatus[i] = "Pending"
    /\ \A j \in 1..(i - 1) : parStatus[j] # "Pending"
    /\ worker_available
    /\ parStatus' = [parStatus EXCEPT ![i] = "Running"]
    /\ UNCHANGED <<buildLog, queuedAtFail, cxxflags, pc, cleanQueue, cleanFailed, flags, parallel_jobs,
                   only_modules, sequential, parallel, seqThread, seqStatus,
                   pool, parExc, observed, mainExc, exitCode, mainErr,
                   handlerRan, successMsg, finalRuns, seqAliveAtFail>>

\* build_module(parallel[i]) returns or raises in the worker; the executor
\* stores the result or the exception (any BaseException) in the future
ParFinish(i) ==
    /\ parStatus[i] = "Running"
    /\ \E r \in ExecResults :
          /\ parStatus' = [parStatus EXCEPT ![i] = build_module_status(r)]
          /\ parExc' = [parExc EXCEPT ![i] = Raised(r)]
    /\ UNCHANGED <<buildLog, queuedAtFail, cxxflags, pc, cleanQueue, cleanFailed, flags, parallel_jobs,
                   only_modules, sequential, parallel, seqThread, seqStatus,
                   pool, observed, mainExc, exitCode, mainErr, handlerRan,
                   successMsg, finalRuns, seqAliveAtFail>>

\* line 157: `except Exception` catches exc (SystemExit derives from
\* BaseException, not from Exception)
caught_by_except_Exception(exc) == exc = "OSError"

\* lines 155-156, success: as_completed yields a finished future and
\* fut.result() returns; after the last one the loop ends
ObserveSuccess(i) ==
    /\ pc = "as_completed"
    /\ i \notin observed
    /\ parStatus[i] = "Succeeded"
    /\ observed' = observed \cup {i}
    /\ pc' = IF observed' = ParUnits THEN "pool_exit" ELSE "as_completed"
    /\ UNCHANGED <<buildLog, queuedAtFail, cxxflags, cleanQueue, cleanFailed, flags, parallel_jobs,
                   only_modules, sequential, parallel, seqThread, seqStatus,
                   pool, parStatus, parExc, mainExc, exitCode, mainErr,
                   handlerRan, successMsg, finalRuns, seqAliveAtFail>>

\* lines 155-160, failure: fut.result() re-raises the future's exception in
\* the main thread.  An Exception runs the handler, whose die() raises
\* SystemExit; a SystemExit passes the handler by.  Either way SystemExit
\* now leaves the with block.
ObserveFailure(i) ==
    /\ pc = "as_completed"
    /\ i \notin observed
    /\ parStatus[i] = "Failed"
    /\ observed' = observed \cup {i}
    /\ IF caught_by_except_Exception(parExc[i])
       THEN /\ handlerRan' = TRUE
            /\ mainErr' = "One or more module builds failed"
       ELSE UNCHANGED <<handlerRan, mainErr>>
    /\ mainExc' = "SystemExit"
    /\ seqAliveAtFail' = (seqThread = "alive")
    /\ queuedAtFail' = {j \in ParUnits : parStatus[j] = "Pending"}
    /\ pc' = "pool_exit"
    /\ UNCHANGED <<buildLog, cxxflags, cleanQueue, cleanFailed, flags, parallel_jobs,
                   only_modules, sequential, parallel, seqThread, seqStatus,
                   pool, parStatus, parExc, exitCode, successMsg, finalRuns>>

\* shutdown(wait=True, cancel_futures=True): queued work is dropped
pool_shutdown_cancels_queued == \A i \in ParUnits : parStatus[i] # "Running"

\* ThreadPoolExecutor.shutdown(wait=True) returns: the workers have run
\* every queued work item and have been joined
pool_shutdown_returns == \A i \in ParUnits : Done(parStatus[i])

\* line 152, leaving the with block: __exit__ calls shutdown(wait=True),
\* then the pending exception, if any, propagates out of main()
PoolExit ==
    /\ pc = "pool_exit"
    /\ pool_shutdown_returns
    /\ pool' = "shutdown"
    /\ IF mainExc = "None"
       THEN /\ pc' = "join"
            /\ UNCHANGED <<exitCode, mainExc>>
       ELSE /\ pc' = "finalize"
            /\ exitCode' = 1
            /\ mainExc' = "None"
    /\ UNCHANGED <<buildLog, queuedAtFail, cxxflags, cleanQueue, cleanFailed, flags, parallel_jobs,
                   only_modules, sequential, parallel, seqThread, seqStatus,
                   parStatus, parExc, observed, mainErr, handlerRan,
                   successMsg, finalRuns, seqAliveAtFail>>

-----------------------------------------------------------------------------
(* The main thread after the parallel group *)

\* no join: the main thread goes on while the lane is still building
join_returns_at_once == TRUE

\* Thread.join() returns: the thread has ended
join_returns == seqThread = "dead"

\* lines 162-163
JoinSeq ==
    /\ pc = "join"
    /\ HasSequential(sequential) => join_returns
    /\ pc' = "final"
    /\ UNCHANGED <<buildLog, queuedAtFail, cxxflags, cleanQueue, cleanFailed, flags, parallel_jobs,
                   only_modules, sequential, parallel, seqThread, seqStatus,
                   pool, parStatus, parExc, observed, mainExc, exitCode,
                   mainErr, handlerRan, successMsg, finalRuns, seqAliveAtFail>>

\* the final build run whatever ONLY_MODULES says
final_step_always(om) == TRUE

\* line 168: `if not only_modules`
final_step_wanted(om) == om = 0

\* lines 165-169: the success message, then the final build is started
\* unless ONLY_MODULES is non-zero
FinalStart ==
    /\ pc = "final"
    /\ successMsg' = TRUE
    /\ \E om \in OnlyModulesValues :
          /\ only_modules' = om
          /\ IF final_step_wanted(om)
             THEN /\ finalRuns' = finalRuns + 1
                  /\ pc' = "final_make"
                  /\ UNCHANGED exitCode
             ELSE /\ pc' = "finalize"
                  /\ exitCode' = 0
                  /\ UNCHANGED finalRuns
    /\ UNCHANGED <<buildLog, queuedAtFail, cxxflags, cleanQueue, cleanFailed, flags, parallel_jobs,
                   sequential, parallel, seqThread, seqStatus, pool, parStatus,
                   parExc, observed, mainExc, mainErr, handlerRan,
                   seqAliveAtFail>>

\* lines 170-172: run("make") in the top-level directory ends
FinalFinish ==
    /\ pc = "final_make"
    /\ \E r \in RunResults :
          IF MainExecFails(r)
          THEN MainRaises(MainExecMessage(r))
          ELSE /\ pc' = "finalize"
               /\ exitCode' = 0
               /\ UNCHANGED <<mainErr, mainExc>>
    /\ UNCHANGED <<buildLog, queuedAtFail, cxxflags, cleanQueue, cleanFailed, flags, parallel_jobs,
                   only_modules, sequential, parallel, seqThread, seqStatus,
                   pool, parStatus, parExc, observed, handlerRan, successMsg,
                   finalRuns, seqAliveAtFail>>

\* seq_thread as a daemon thread: the interpreter does not wait for it
interpreter_may_exit_daemon == TRUE

\* the interpreter may end the process: threading._shutdown() has joined
\* every non-daemon thread (seq_thread is one)
interpreter_may_exit == seqThread # "alive"

\* lines 175-176: main() has returned or raised; the process exits
Finalize ==
    /\ pc = "finalize"
    /\ interpreter_may_exit
    /\ pc' = "exited"
    /\ UNCHANGED <<buildLog, queuedAtFail, cxxflags, cleanQueue, cleanFailed, flags, parallel_jobs,
                   only_modules, sequential, parallel, seqThread, seqStatus,
                   pool, parStatus, parExc, observed, mainExc, exitCode,
                   mainErr, handlerRan, successMsg, finalRuns, seqAliveAtFail>>

Next ==
    \/ ReadEnv
    \/ RootClean
    \/ SelectClean
    \/ CleanStep
    \/ Parse
    \/ Partition
    \/ StartSeq
    \/ \E i \in SeqUnits : SeqStart(i)
    \/ \E i \in SeqUnits : SeqFinish(i)
    \/ CreatePool
    \/ \E i \in ParUnits : ParStart(i)
    \/ \E i \in ParUnits : ParFinish(i)
    \/ \E i \in ParUnits : ObserveSuccess(i)
    \/ \E i \in ParUnits : ObserveFailure(i)
    \/ PoolExit
    \/ JoinSeq
    \/ FinalStart
    \/ FinalFinish
    \/ Finalize

Spec == Init /\ [][Next]_vars

\* The main thread runs on from the partition to the submission of the
\* parallel group (Thread.start() and submit() return at once), the pool's
\* workers take queued work whenever one is free, and the build command of
\* a parallel module ends.  Nothing is assumed about the sequential lane: a
\* build there may run forever.
Fairness ==
    /\ WF_vars(StartSeq)
    /\ WF_vars(CreatePool)
    /\ WF_vars(\E i \in ParUnits : ParStart(i))
    /\ \A i \in 1..MaxFairTokens : WF_vars(i \in ParUnits /\ ParFinish(i))

SpecFair == InitFair /\ [][Next]_vars /\ Fairness

-----------------------------------------------------------------------------
(* build_module on its own: one call, with the commands its shell runs *)

\* lines 83-90: the commands of the shell command line, joined by &&
BuildSteps(flag) ==
    IF needs_rust_nightly(flag)
    THEN <<"rustup default nightly", "make cargo", "make">>
    ELSE <<"make">>

\* the commands the shell has started when execute_in_dir ends with result
\* r: none when the directory is missing or the shell is not spawned, all
\* of them on exit status 0, and on a non-zero exit status those up to the
\* k-th, the one that failed (a && b runs b only after a succeeded)
CommandsRun(flag, r, k) ==
    IF r \in {"nodir", "oserror"} THEN <<>>
    ELSE IF r = "ok" THEN BuildSteps(flag)
    ELSE SubSeq(BuildSteps(flag), 1, k)

\* lines 77-93: build_module(f) for a parsed flag f
BuildModule ==
    /\ pc = "start_seq"
    /\ \E i \in 1..Len(Val(flags)), r \in ExecResults :
          \E k \in 1..Len(BuildSteps(Val(flags)[i])) :
             buildLog' = Some([flag |-> Val(flags)[i],
                               dir |-> get_module_dir(Val(flags)[i]),
                               result |-> r,
                               cmds |-> CommandsRun(Val(flags)[i], r, k),
                               status |-> build_module_status(r)])
    /\ pc' = "built"
    /\ UNCHANGED <<queuedAtFail, cxxflags, cleanQueue, cleanFailed, flags,
                   parallel_jobs, only_modules, sequential, parallel,
                   seqThread, seqStatus, pool, parStatus, parExc, observed,
                   mainExc, exitCode, mainErr, handlerRan, successMsg,
                   finalRuns, seqAliveAtFail>>

NextBuild ==
    \/ NextPure
    \/ BuildModule

SpecBuild == InitPure /\ [][NextBuild]_vars

-----------------------------------------------------------------------------
(* Properties *)

Exited == pc = "exited"
NoModuleBuilt ==
    /\ seqThread = "none"
    /\ pool = "none"
    /\ seqStatus = <<>>
    /\ parStatus = <<>>

\* q is a subsequence of s (the members of q occur in s in the same order)
RECURSIVE IsSubseq(_, _)
IsSubseq(q, s) ==
    IF q = <<>> THEN TRUE
    ELSE IF s = <<>> THEN FALSE
    ELSE IF Head(q) = Head(s) THEN IsSubseq(Tail(q), Tail(s))
    ELSE IsSubseq(q, Tail(s))

\* C1: the invocation reports overall success (the completion message, the
\* final aggregate step, exit status 0) only if every requested module of
\* both groups reached Succeeded; a failed sequential-lane module makes the
\* run end with a non-zero exit status.
C1_SuccessOnlyIfAllSucceeded ==
    (successMsg \/ finalRuns > 0 \/ (Exited /\ exitCode = 0)) =>
        /\ \A i \in SeqUnits : seqStatus[i] = "Succeeded"
        /\ Len(parStatus) = Len(parallel)
        /\ \A i \in ParUnits : parStatus[i] = "Succeeded"

\* C2: if the first failure of the parallel group is observed while the
\* sequential lane is still running, the run never reports success, it exits
\* with status 1, and at process exit the sequential thread has ended and no
\* sequential module is Running.
C2_SequentialAwaitedAfterParallelFailure ==
    seqAliveAtFail =>
        /\ exitCode # 0
        /\ ~successMsg
        /\ Exited => /\ exitCode = 1
                     /\ seqThread = "dead"
                     /\ SeqRunning = {}

C2_Witness ==
    /\ Exited
    /\ seqAliveAtFail
    /\ \E i \in SeqUnits : seqStatus[i] = "Succeeded"

\* C3: as soon as a failed parallel result has been observed, the failure is
\* raised to the top level: leaving the parallel phase with the failure does
\* not wait for the other parallel modules to finish.
C3_FailFastDoesNotWait ==
    (/\ pc = "pool_exit"
     /\ mainExc = "SystemExit"
     /\ \A i \in ParUnits : parStatus[i] # "Pending") => ENABLED PoolExit

\* C4: at most one forced-sequential module is Running, no forced-sequential
\* module is run by the pool, and the sequential lane starts its members in
\* their flag order, each only after every earlier one has finished.
C4_SequentialLaneExclusive ==
    /\ Cardinality(SeqRunning) <= 1
    /\ \A i \in SeqUnits : should_build_sequentially(sequential[i])
    /\ \A i \in ParUnits : ~should_build_sequentially(parallel[i])
    /\ flags # None => IsSubseq(sequential, Val(flags))
    /\ \A i \in SeqUnits :
          seqStatus[i] # "Pending" =>
              \A j \in 1..(i - 1) : Done(seqStatus[j])

C4_Witness ==
    /\ Len(sequential) >= 2
    /\ seqStatus[1] = "Succeeded"
    /\ seqStatus[2] = "Running"
    /\ ParRunning # {}

\* C5: with a concurrency limit L > 0 never more than L members of the
\* parallel group are Running, and every member of the parallel group has
\* been submitted as one unit of work of its own.
C5_ConcurrencyLimit ==
    /\ parallel_jobs > 0 => Cardinality(ParRunning) <= parallel_jobs
    /\ pool # "none" => Len(parStatus) = Len(parallel)

C5_Witness ==
    /\ parallel_jobs = 2
    /\ Cardinality(ParRunning) = 2
    /\ \E i \in ParUnits : parStatus[i] = "Pending"

\* C6: the parsed flags are the distinct identifiers: none occurs twice.
C6_FlagsAreDistinct ==
    flags # None =>
        \A i, j \in 1..Len(Val(flags)) :
            i # j => Val(flags)[i] # Val(flags)[j]

C8_EmptySetIsNoOp ==
    flags = Some(<<>>) =>
        /\ NoModuleBuilt
        /\ sequential = <<>> /\ parallel = <<>>
        /\ finalRuns = 0
        /\ pc \in {"finalize", "exited"}
        /\ exitCode = 0
        /\ mainErr = "none"

C8_Witness ==
    /\ flags = Some(<<>>)
    /\ pc = "finalize"
    /\ Len(Val(cxxflags)) > 3

\* C9: the first clean step that fails (directory missing, or the clean
\* command returning non-zero) is fatal: the run goes straight to its exit
\* with status 1, no module build is started, and no further directory is
\* cleaned.
C9_CleanFailureIsFatal ==
    /\ [](cleanFailed =>
            /\ pc \in {"finalize", "exited"}
            /\ exitCode = 1
            /\ flags = None
            /\ NoModuleBuilt)
    /\ [][cleanFailed => (cleanQueue' = cleanQueue /\ cleanFailed')]_vars

C9_Witness ==
    /\ cleanFailed
    /\ Exited
    /\ Len(cleanQueue) >= 2

\* the forced-sequential identifiers, as the specification lists them
ForcedSequential(id) ==
    \/ id = <<"S","E","C","P","2","5","6","K","1">>
    \/ id = <<"B","I","T","C","O","I","N","J">>
    \/ id = <<"L","I","G","H","T","N","I","N","G","_","K","M","P">>
    \/ /\ Len(id) >= 15
       /\ \A k \in 1..15 :
             id[k] = <<"C","U","S","T","O","M","_",
                       "M","U","T","A","T","O","R","_">>[k]

\* C10: should_build_sequentially is true exactly for SECP256K1, BITCOINJ,
\* LIGHTNING_KMP and the identifiers with the CUSTOM_MUTATOR_ prefix; the
\* partition puts exactly those, in flag order, into sequential and exactly
\* the others into parallel: the groups are disjoint and cover the flags.
C10_PartitionByForcedSequential ==
    /\ flags # None =>
          \A f \in Range(Val(flags)) :
              should_build_sequentially(f) <=> ForcedSequential(f)
    /\ parallel_jobs # -1 =>
          /\ \A i \in 1..Len(sequential) : ForcedSequential(sequential[i])
          /\ \A i \in 1..Len(parallel) : ~ForcedSequential(parallel[i])
          /\ IsSubseq(sequential, Val(flags))
          /\ IsSubseq(parallel, Val(flags))
          /\ Len(sequential) + Len(parallel) = Len(Val(flags))
          /\ Range(sequential) \cap Range(parallel) = {}
          /\ Range(sequential) \cup Range(parallel) = Range(Val(flags))

C10_Witness ==
    /\ pc = "start_seq"
    /\ CUSTOM_MUTATOR_ \in Range(sequential)
    /\ <<"C","U","S","T","O","M","_","M","U","T","A","T","O","R">>
          \in Range(parallel)

\* the directory of an identifier, as the specification describes it: the
\* underscores are dropped first, then each letter is lowercased
NotUnderscore(c) == c # "_"
LowercaseOf(c) ==
    IF \E k \in 1..26 : UpperSeq[k] = c
    THEN LowerSeq[CHOOSE k \in 1..26 : UpperSeq[k] = c]
    ELSE c
DefaultDirName(id) ==
    LET kept == SelectSeq(id, NotUnderscore)
    IN  [k \in 1..Len(kept) |-> LowercaseOf(kept[k])]
ResolvedDirectory(id) ==
    IF id = <<"B","I","T","C","O","I","N","_","C","O","R","E">>
    THEN <<"m","o","d","u","l","e","s","/","b","i","t","c","o","i","n">>
    ELSE IF /\ Len(id) >= 15
            /\ SubSeq(id, 1, 15) = <<"C","U","S","T","O","M","_",
                                     "M","U","T","A","T","O","R","_">>
    THEN <<"c","u","s","t","o","m","m","u","t","a","t","o","r">>
    ELSE <<"m","o","d","u","l","e","s","/">> \o DefaultDirName(id)

\* C11: get_module_dir maps BITCOIN_CORE to modules/bitcoin, every
\* identifier with the CUSTOM_MUTATOR_ prefix to custommutator, and every
\* other identifier to modules/ followed by the identifier lowercased with
\* its underscores removed; the directories a clean by flags visits are
\* these, in flag order.
C11_ResolveDirectory ==
    /\ flags # None =>
          \A f \in Range(Val(flags)) : get_module_dir(f) = ResolvedDirectory(f)
    /\ Truthy(cxxflags) =>
          LET fl == get_flags(Val(cxxflags))
          IN  \A k \in 1..Len(fl) : DirsOf(fl)[k] = ResolvedDirectory(fl[k])

C11_Witness ==
    /\ pc = "cleaning"
    /\ get_flags(Val(cxxflags)) = <<BITCOIN_CORE, L_DK>>
    /\ cleanQueue = <<DirBitcoin, <<"m","o","d","u","l","e","s","/","l","d","k">> >>

\* the pinned-toolchain identifiers, as the specification lists them
RequiresPinnedToolchain(id) ==
    \/ id = <<"R","U","S","T","_","B","I","T","C","O","I","N">>
    \/ id = <<"R","U","S","T","_","M","I","N","I","S","C","R","I","P","T">>
    \/ id = <<"L","D","K">>
    \/ id = <<"T","I","N","Y","_","M","I","N","I","S","C","R","I","P","T">>
    \/ id = <<"R","U","S","T","B","I","T","C","O","I","N",
              "K","E","R","N","E","L">>

\* the command sequence of a module: toolchain switch, toolchain-specific
\* pre-build, generic build; or the generic build alone
ExpectedSteps(id) ==
    IF RequiresPinnedToolchain(id)
    THEN <<"rustup default nightly", "make cargo", "make">>
    ELSE <<"make">>

IsPrefix(q, s) == Len(q) <= Len(s) /\ SubSeq(s, 1, Len(q)) = q

\* C12: needs_rust_nightly is true exactly for RUST_BITCOIN,
\* RUST_MINISCRIPT, LDK, TINY_MINISCRIPT and RUSTBITCOINKERNEL; build_module
\* runs, in the module directory, for those the three commands in order and
\* for every other module the generic build alone; the commands run are a
\* prefix of that sequence, the module Succeeded only if all of them ran,
\* after a failing command no later one runs and the module is Failed, and
\* with the directory missing no command runs and the module is Failed.
C12_PinnedToolchainBuild ==
    /\ flags # None =>
          \A f \in Range(Val(flags)) :
              needs_rust_nightly(f) <=> RequiresPinnedToolchain(f)
    /\ buildLog # None =>
          LET b == Val(buildLog)
          IN  /\ b.dir = ResolvedDirectory(b.flag)
              /\ IsPrefix(b.cmds, ExpectedSteps(b.flag))
              /\ b.status = "Succeeded" => b.cmds = ExpectedSteps(b.flag)
              /\ b.result = "ok" => b.status = "Succeeded"
              /\ b.result = "nonzero" => (b.status = "Failed" /\ b.cmds # <<>>)
              /\ b.cmds # ExpectedSteps(b.flag) => b.status = "Failed"
              /\ b.result = "nodir" => (b.cmds = <<>> /\ b.status = "Failed")

C12_Witness ==
    /\ buildLog # None
    /\ Val(buildLog).flag = TINY_MINISCRIPT
    /\ Val(buildLog).cmds = <<"rustup default nightly", "make cargo">>
    /\ Val(buildLog).status = "Failed"

\* C13: once a member of the sequential lane has Failed, no later member of
\* the lane is ever attempted: every later member is still Pending, the
\* thread has ended, and no step starts one of them.
C13_SequentialLaneAborts ==
    \A i \in SeqUnits :
        seqStatus[i] = "Failed" =>
            /\ \A j \in (i + 1)..Len(sequential) : seqStatus[j] = "Pending"
            /\ seqThread = "dead"
            /\ \A j \in SeqUnits : ~ENABLED SeqStart(j)

C13_Witness ==
    /\ pc = "exited"
    /\ Len(sequential) >= 2
    /\ seqStatus[1] = "Failed"
    /\ seqStatus[2] = "Pending"

\* the build attempts made so far for identifier id, in both groups
Attempts(id) ==
    Cardinality({i \in SeqUnits : sequential[i] = id /\ seqStatus[i] # "Pending"})
    + Cardinality({i \in ParUnits : parallel[i] = id /\ parStatus[i] # "Pending"})

\* C14: each module identifier gets at most one build attempt per
\* invocation: an identifier repeated in the configuration string is not
\* built a second time, neither in the sequential lane nor as a second unit
\* of work of the pool.
C14_OneAttemptPerIdentifier ==
    flags # None => \A f \in Range(Val(flags)) : Attempts(f) <= 1

\* the directories in which a build is Running, one entry per build
RunningIn(dir) ==
    Cardinality({i \in SeqRunning : get_module_dir(sequential[i]) = dir})
    + Cardinality({i \in ParRunning : get_module_dir(parallel[i]) = dir})

\* C15: no two module builds are Running at once in the same directory,
\* whether their identifiers are equal, are distinct identifiers that
\* get_module_dir maps to one directory, or share the custom-mutator
\* directory.
C15_DirectoryExclusive ==
    flags # None =>
        \A f \in Range(Val(flags)) : RunningIn(get_module_dir(f)) <= 1

\* C16: when a member of the parallel group has failed because its command
\* returned a non-zero exit status (build_module's die(), which reaches the
\* main thread as the exception Raised("nonzero")) and the main thread has
\* observed it, the failure handler has run, and the invocation ends with
\* the report "One or more module builds failed" and a non-zero exit status.
C16_AggregateFailureReported ==
    \A i \in observed :
        (parStatus[i] = "Failed" /\ parExc[i] = Raised("nonzero")) =>
            /\ handlerRan
            /\ mainErr = "One or more module builds failed"
            /\ Exited => exitCode # 0

C18_ParallelNotBlocked ==
    \A i \in 1..MaxFairTokens :
        (pc = "start_seq" /\ i <= Len(parallel))
            ~> (i <= Len(parStatus) /\ parStatus[i] # "Pending")

C18_Witness ==
    /\ SeqRunning # {}
    /\ ParRunning # {}
    /\ \E i \in ParUnits : parStatus[i] = "Pending"

\* C19: fail-fast does not cancel queued work: once the main thread has
\* observed a parallel failure, the with block is not left while a parallel
\* module is Pending or Running, a worker that is free still takes the next
\* queued module, and when the process exits every submitted parallel module,
\* those queued at the time of the failure included, is Succeeded or Failed.
C19_QueuedWorkStillRuns ==
    /\ (pc = "pool_exit" /\ mainExc = "SystemExit") =>
          \A i \in ParUnits :
              /\ ~Done(parStatus[i]) => ~ENABLED PoolExit
              /\ (/\ parStatus[i] = "Pending"
                  /\ \A j \in 1..(i - 1) : parStatus[j] # "Pending"
                  /\ Cardinality(ParRunning) < max_workers(parallel_jobs))
                     => ENABLED ParStart(i)
    /\ (pool # "none" /\ pc \in {"finalize", "exited"}) =>
          /\ \A i \in ParUnits : Done(parStatus[i])
          /\ \A i \in queuedAtFail : Done(parStatus[i])

C19_Witness ==
    /\ Exited
    /\ exitCode = 1
    /\ queuedAtFail # {}
    /\ \E i \in queuedAtFail : parStatus[i] = "Succeeded"

\* C20: while the final make in the top-level directory runs, no module of
\* either group is Running and none can still start: the pool has shut down
\* with every parallel module Succeeded or Failed, and the sequential thread
\* has ended (a sequential member still Pending is never built).
C20_FinalStepAfterAllBuilds ==
    pc = "final_make" =>
        /\ SeqRunning = {}
        /\ ParRunning = {}
        /\ pool # "open"
        /\ seqThread # "alive"
        /\ \A i \in ParUnits : Done(parStatus[i])
        /\ \A i \in SeqUnits : ~ENABLED SeqStart(i)
        /\ \A i \in ParUnits : ~ENABLED ParStart(i)

C20_Witness ==
    /\ pc = "final_make"
    /\ pool = "shutdown"
    /\ seqThread = "dead"
    /\ Len(sequential) = 1
    /\ seqStatus[1] = "Succeeded"
    /\ Len(parallel) = 2

====
